---- MODULE Spec2Model ----
(***************************************************************************)
(* A model of the truescad kernel: the QEF solver (tessellation/qef.rs),   *)
(* the sphere-tracing renderer (src/render.rs), the affine transformer of  *)
(* the object model (primitive/transformer.rs, primitive/lib.rs,           *)
(* primitive/sphere.rs) and the Lua object handle (luascad/lobject.rs).    *)
(*                                                                         *)
(* Arithmetic.  The program computes in f64.  The QEF part is modelled in  *)
(* exact rational arithmetic: plane points, plane normals and cell corners *)
(* are small integers, a solution is a vector of integers over a common    *)
(* positive denominator, and NaN is the value with denominator 0.          *)
(***************************************************************************)
EXTENDS Integers, Sequences, FiniteSets, TLC

VARIABLES
    qef,        \* the Qef a tessellator cell holds, or NoQef before Qef::new
    hist,       \* its history: the planes and the cells accumulated into it,
                \* and whether its last operation was solve()
    lobj,       \* the LObject handle of the script
    console,    \* the console channel: messages sent, whether the receiver exists
    fatal,      \* "none", or the panic that ended the script
    base,       \* the last object of the handle that no transform call produced
    calls,      \* the transform calls applied to base since
    lastop,     \* the last call of the script
    nops,       \* the number of calls of the script
    robject,    \* Renderer.object
    trans,      \* Renderer.trans: [rot, shift]
    epsilon,    \* Renderer.epsilon
    maxval,     \* Renderer.maxval
    approx_slack, \* Renderer.approx_slack
    buf,        \* the caller's pixel buffer
    rlast,      \* the last operation on the Renderer and the state it found
    shape,      \* an object of the object model, or NoObject before Sphere::new
    ocalls,     \* the translate/rotate/scale calls that built it from a primitive
    probe,      \* the last call on it: its arguments, and the value it returned
    cast,       \* one call of cast_ray: its position, its ray, value and iter
    draw,       \* one call of draw_on_buf: the progress of each row task
    search      \* one call of search_solution: its working box and its depth

qvars == <<qef, hist>>
lvars == <<lobj, console, fatal, base, calls, lastop, nops>>
rvars == <<robject, trans, epsilon, maxval, approx_slack, buf, rlast>>
ovars == <<shape, ocalls, probe>>
cvars == <<cast>>
tvars == <<draw>>
svars == <<search>>
vars == <<qef, hist, lobj, console, fatal, base, calls, lastop, nops,
          robject, trans, epsilon, maxval, approx_slack, buf, rlast,
          shape, ocalls, probe, cast, draw, search>>

(***************************************************************************)
(* Bounds of the model.                                                    *)
(***************************************************************************)
MaxPlanes == 5     \* planes accumulated into one Qef by merging

(***************************************************************************)
(* Integer helpers.                                                        *)
(***************************************************************************)
Abs(x) == IF x < 0 THEN -x ELSE x
Min2(a, b) == IF a <= b THEN a ELSE b
Max2(a, b) == IF a >= b THEN a ELSE b

RECURSIVE GCD(_, _)
GCD(a, b) == IF b = 0 THEN a ELSE GCD(b, a % b)

Dot(u, v) == u[1] * v[1] + u[2] * v[2] + u[3] * v[3]
VAdd(u, v) == <<u[1] + v[1], u[2] + v[2], u[3] + v[3]>>
VSub(u, v) == <<u[1] - v[1], u[2] - v[2], u[3] - v[3]>>
VScale(k, u) == <<k * u[1], k * u[2], k * u[3]>>
\* a 3x3 matrix is a triple of rows
MatVec(m, v) == <<Dot(m[1], v), Dot(m[2], v), Dot(m[3], v)>>

(***************************************************************************)
(* Float values of the solver.  A vector value is [v, d]: the point v/d    *)
(* with d > 0 in lowest terms, or NaN when d = 0.  A scalar is [n, d].     *)
(***************************************************************************)
NAN3 == [v |-> <<0, 0, 0>>, d |-> 0]
NANF == [n |-> 0, d |-> 0]

Rat3(v, d) ==
    LET s == IF d < 0 THEN -1 ELSE 1
        g == GCD(GCD(GCD(Abs(d), Abs(v[1])), Abs(v[2])), Abs(v[3]))
    IN  [v |-> <<(s * v[1]) \div g, (s * v[2]) \div g, (s * v[3]) \div g>>,
         d |-> (s * d) \div g]

Rat(n, d) ==
    LET s == IF d < 0 THEN -1 ELSE 1
        g == GCD(Abs(d), Abs(n))
    IN  [n |-> (s * n) \div g, d |-> (s * d) \div g]

(***************************************************************************)
(* BoundingBox (truescad_primitive::BoundingBox), as the solver uses it.   *)
(***************************************************************************)
BBox(lo, hi) == [min |-> lo, max |-> hi]

\* BoundingBox::contains: the closed box; false for a NaN point
BBoxContains(b, s) ==
    /\ s.d > 0
    /\ \A k \in 1..3 : b.min[k] * s.d <= s.v[k] /\ s.v[k] <= b.max[k] * s.d

\* BoundingBox::union: the smallest box containing both
BBoxUnion(a, b) ==
    BBox(<<Min2(a.min[1], b.min[1]), Min2(a.min[2], b.min[2]), Min2(a.min[3], b.min[3])>>,
         <<Max2(a.max[1], b.max[1]), Max2(a.max[2], b.max[2]), Max2(a.max[3], b.max[3])>>)

(***************************************************************************)
(* Qef::new                                                                *)
(***************************************************************************)
NoQef == [num |-> 0]

QefZero(bbox) ==
    [solution |-> NAN3, sum |-> <<0, 0, 0>>, num |-> 0,
     ata |-> <<0, 0, 0, 0, 0, 0>>, atb |-> <<0, 0, 0>>, btb |-> 0,
     error |-> NANF, bbox |-> bbox]

\* one pass of the loop body of Qef::new over plane p
QefAddPlane(q, p) ==
    LET pn == p.p[1] * p.n[1] + p.p[2] * p.n[2] + p.p[3] * p.n[3]
    IN  [q EXCEPT
            !.ata = <<q.ata[1] + p.n[1] * p.n[1], q.ata[2] + p.n[1] * p.n[2],
                      q.ata[3] + p.n[1] * p.n[3], q.ata[4] + p.n[2] * p.n[2],
                      q.ata[5] + p.n[2] * p.n[3], q.ata[6] + p.n[3] * p.n[3]>>,
            !.atb = <<q.atb[1] + p.n[1] * pn, q.atb[2] + p.n[2] * pn,
                      q.atb[3] + p.n[3] * pn>>,
            !.btb = q.btb + pn * pn,
            !.sum = VAdd(q.sum, p.p)]

RECURSIVE QefAccumulate(_, _, _)
QefAccumulate(q, planes, i) ==
    IF i > Len(planes) THEN q
    ELSE QefAccumulate(QefAddPlane(q, planes[i]), planes, i + 1)

QefNew(planes, bbox) ==
    QefAccumulate([QefZero(bbox) EXCEPT !.num = Len(planes)], planes, 1)

(***************************************************************************)
(* Qef::error, Qef::search_solution, Qef::solve                            *)
(***************************************************************************)
\* na::Matrix3::new(m[0], m[1], m[2], m[1], m[3], m[4], m[2], m[4], m[5])
QefMatrix(q) ==
    <<<<q.ata[1], q.ata[2], q.ata[3]>>,
      <<q.ata[2], q.ata[4], q.ata[5]>>,
      <<q.ata[3], q.ata[5], q.ata[6]>>>>

Det3(m) ==
      m[1][1] * (m[2][2] * m[3][3] - m[2][3] * m[3][2])
    - m[1][2] * (m[2][1] * m[3][3] - m[2][3] * m[3][1])
    + m[1][3] * (m[2][1] * m[3][2] - m[2][2] * m[3][1])

\* the adjugate: the inverse is Adj3(m) / Det3(m)
Adj3(m) ==
    <<<<m[2][2] * m[3][3] - m[2][3] * m[3][2], m[1][3] * m[3][2] - m[1][2] * m[3][3],
        m[1][2] * m[2][3] - m[1][3] * m[2][2]>>,
      <<m[2][3] * m[3][1] - m[2][1] * m[3][3], m[1][1] * m[3][3] - m[1][3] * m[3][1],
        m[1][3] * m[2][1] - m[1][1] * m[2][3]>>,
      <<m[2][1] * m[3][2] - m[2][2] * m[3][1], m[1][2] * m[3][1] - m[1][1] * m[3][2],
        m[1][1] * m[2][2] - m[1][2] * m[2][1]>>>>

\* the search works on points whose coordinates are multiples of 1/Den:
\* eight halvings of a cell with integer corners
Den == 2 ^ 8

\* Qef::error at the point (a + EPSILON * Den * b) / Den, as the polynomial
\* c0 / Den^2 + c1 * EPSILON / Den + c2 * EPSILON^2 in EPSILON
QefErrorPoly(q, a, b) ==
    LET ma == QefMatrix(q)
    IN  [c0 |-> q.btb * Den * Den - 2 * Den * Dot(a, q.atb) + Dot(a, MatVec(ma, a)),
         c1 |-> 2 * Dot(b, MatVec(ma, a)) - 2 * Den * Dot(b, q.atb),
         c2 |-> Dot(b, MatVec(ma, b))]

\* d < m for two such values.  EPSILON = 1e-10 is smaller than 1 / (Den * c2)
\* for every c2 of the model, so the comparison is decided by the lowest
\* coefficient that differs.
ErrLess(d, m) ==
    \/ d.c0 < m.c0
    \/ d.c0 = m.c0 /\ d.c1 < m.c1
    \/ d.c0 = m.c0 /\ d.c1 = m.c1 /\ d.c2 < m.c2

Unit3(dim) == [k \in 1..3 |-> IF k = dim THEN 1 ELSE 0]
Zero3 == <<0, 0, 0>>

\* Qef::error at a solution value, as a scalar value
QefError(q, s) ==
    IF s.d = 0 THEN NANF
    ELSE Rat(q.btb * s.d * s.d - 2 * s.d * Dot(s.v, q.atb)
                 + Dot(s.v, MatVec(QefMatrix(q), s.v)),
             s.d * s.d)

\* the midpoint of a box whose corners are in units of 1/Den
BoxMid(b) == <<(b.max[1] + b.min[1]) \div 2, (b.max[2] + b.min[2]) \div 2,
               (b.max[3] + b.min[3]) \div 2>>

\* a search that halves the working box on the y and z axes only
SearchHalveYZ(q, b) ==
    LET mid == <<(b.max[1] + b.min[1]) \div 2, (b.max[2] + b.min[2]) \div 2,
                 (b.max[3] + b.min[3]) \div 2>>
    IN  [min |-> <<b.min[1], mid[2], mid[3]>>, max |-> b.max]

\* the loop over dim of search_solution: keep the upper half on dim when the
\* error at mid + EPSILON on dim is below the error at mid, else the lower
SearchHalve(q, b) ==
    LET mid == BoxMid(b)
        mid_error == QefErrorPoly(q, mid, Zero3)
        up(dim) == ErrLess(QefErrorPoly(q, mid, Unit3(dim)), mid_error)
    IN  BBox([k \in 1..3 |-> IF up(k) THEN mid[k] ELSE b.min[k]],
             [k \in 1..3 |-> IF up(k) THEN b.max[k] ELSE mid[k]])

\* search_solution(accuracy, bbox, ma) with accuracy = acc / 100 and bbox in
\* units of 1/Den; the result is the pair of the midpoint returned and the
\* number of halvings done
RECURSIVE SearchSolution(_, _, _, _)
SearchSolution(q, acc, b, depth) ==
    IF 100 * (b.max[1] - b.min[1]) <= acc * Den
    THEN [mid |-> BoxMid(b), depth |-> depth]
    ELSE SearchSolution(q, acc, SearchHalve(q, b), depth + 1)

\* the least-squares point without the mean added back
QefInverseSolutionNoMean(q) ==
    LET ma == QefMatrix(q)
        b_rel_mean == VSub(VScale(q.num, q.atb), MatVec(ma, q.sum))
    IN  Rat3(MatVec(Adj3(ma), b_rel_mean), Det3(ma) * q.num)

\* the least-squares point inv * (atb - ma * mean) + mean, mean = sum / num
QefInverseSolution(q) ==
    LET ma == QefMatrix(q)
        det == Det3(ma)
        b_rel_mean == VSub(VScale(q.num, q.atb), MatVec(ma, q.sum))  \* times num
    IN  Rat3(VAdd(MatVec(Adj3(ma), b_rel_mean), VScale(det, q.sum)), det * q.num)

QefFallback(q) ==
    LET acc == q.bbox.max[1] - q.bbox.min[1]
        r == SearchSolution(q, acc,
                 BBox(VScale(Den, q.bbox.min), VScale(Den, q.bbox.max)), 0)
    IN  Rat3(r.mid, Den)

\* solve without the fallback: the least-squares point is kept wherever it lies
QefSolveNoFallback(q) ==
    LET s1 == IF Det3(QefMatrix(q)) # 0 THEN QefInverseSolution(q) ELSE q.solution
    IN  [q EXCEPT !.solution = s1, !.error = QefError(q, s1)]

QefSolve(q) ==
    LET s1 == IF Det3(QefMatrix(q)) # 0 THEN QefInverseSolution(q) ELSE q.solution
        s2 == IF ~BBoxContains(q.bbox, s1) THEN QefFallback(q) ELSE s1
    IN  [q EXCEPT !.solution = s2, !.error = QefError(q, s2)]

(***************************************************************************)
(* Qef::merge                                                              *)
(***************************************************************************)
\* merge that takes the other cell instead of the union of both
QefMergeOtherCell(q, other) ==
    [q EXCEPT
        !.ata = [k \in 1..6 |-> q.ata[k] + other.ata[k]],
        !.atb = VAdd(q.atb, other.atb),
        !.btb = q.btb + other.btb,
        !.sum = VAdd(q.sum, other.sum),
        !.num = q.num + other.num,
        !.bbox = other.bbox]

QefMerge(q, other) ==
    [q EXCEPT
        !.ata = [k \in 1..6 |-> q.ata[k] + other.ata[k]],
        !.atb = VAdd(q.atb, other.atb),
        !.btb = q.btb + other.btb,
        !.sum = VAdd(q.sum, other.sum),
        !.num = q.num + other.num,
        !.bbox = BBoxUnion(q.bbox, other.bbox)]

(***************************************************************************)
(* Float values of the object model.  The transforms are composed in exact *)
(* arithmetic on the values an f64 can take: a rational [n, d] with d > 0  *)
(* in lowest terms, +infinity [1, 0], -infinity [-1, 0] and NaN [0, 0].    *)
(* Signed zeros and rounding are left out.                                 *)
(*                                                                         *)
(* Only({e : x \in {v}}) is e with x standing for the value of v: the      *)
(* operand v is computed once, however often e uses it.                    *)
(***************************************************************************)
Only(S) == CHOOSE x \in S : TRUE

Sign(x) == IF x > 0 THEN 1 ELSE IF x < 0 THEN -1 ELSE 0

FNorm(n, d) ==
    Only({ IF y = 0 THEN [n |-> Sign(x), d |-> 0]
           ELSE Only({ [n |-> (Sign(y) * x) \div g, d |-> Abs(y) \div g] :
                           g \in {GCD(Abs(x), Abs(y))} }) :
               x \in {n}, y \in {d} })

FInt(k) == [n |-> k, d |-> 1]
FNaN == [n |-> 0, d |-> 0]
FInf == [n |-> 1, d |-> 0]

IsFinite(a) == a.d > 0
IsNaN(a) == a.d = 0 /\ a.n = 0

FNeg(a) == Only({ [n |-> -x.n, d |-> x.d] : x \in {a} })

\* a * b: infinity * 0 is NaN
FMul(a, b) == Only({ FNorm(x.n * y.n, x.d * y.d) : x \in {a}, y \in {b} })

\* a + b: infinity - infinity is NaN
FAdd(a, b) ==
    Only({ IF IsFinite(x) /\ IsFinite(y) THEN FNorm(x.n * y.d + y.n * x.d, x.d * y.d)
           ELSE IF IsNaN(x) \/ IsNaN(y) THEN FNaN
           ELSE IF IsFinite(x) THEN y
           ELSE IF IsFinite(y) THEN x
           ELSE IF x.n = y.n THEN x ELSE FNaN :
               x \in {a}, y \in {b} })

FSub(a, b) == FAdd(a, FNeg(b))

\* 1. / a: 1/0 is infinity, 1/infinity is 0
FInv(a) == Only({ FNorm(x.d, x.n) : x \in {a} })

\* a < b, false when either is NaN
FLess(a, b) ==
    \E x \in {a}, y \in {b} :
        /\ ~IsNaN(x)
        /\ ~IsNaN(y)
        /\ IF IsFinite(x) /\ IsFinite(y) THEN x.n * y.d < y.n * x.d
           ELSE IF IsFinite(x) THEN y.n > 0
           ELSE IF IsFinite(y) THEN x.n < 0
           ELSE x.n < y.n

\* f64::min and f64::max: the other operand when one is NaN
FMin(a, b) ==
    Only({ IF IsNaN(x) THEN y ELSE IF IsNaN(y) THEN x ELSE IF FLess(y, x) THEN y ELSE x :
               x \in {a}, y \in {b} })

FMax(a, b) ==
    Only({ IF IsNaN(x) THEN y ELSE IF IsNaN(y) THEN x ELSE IF FLess(x, y) THEN y ELSE x :
               x \in {a}, y \in {b} })

FVecInt(v) == <<FInt(v[1]), FInt(v[2]), FInt(v[3])>>
FVecNeg(v) == <<FNeg(v[1]), FNeg(v[2]), FNeg(v[3])>>

(***************************************************************************)
(* Transform (na::Matrix4<Float>): rows 1..3 of the homogeneous matrix,    *)
(* four columns each; the last row is (0, 0, 0, 1) in every matrix the     *)
(* program builds.                                                         *)
(***************************************************************************)
LastRow == <<FInt(0), FInt(0), FInt(0), FInt(1)>>

\* Transform::identity()
TIdentity ==
    << <<FInt(1), FInt(0), FInt(0), FInt(0)>>,
       <<FInt(0), FInt(1), FInt(0), FInt(0)>>,
       <<FInt(0), FInt(0), FInt(1), FInt(0)>> >>

\* row j of Matrix4::append_translation: self[(j, i)] += shift[j] * self[(3, i)]
TranslatedRow(t, shift, j) ==
    <<FAdd(t[j][1], FMul(shift[j], LastRow[1])), FAdd(t[j][2], FMul(shift[j], LastRow[2])),
      FAdd(t[j][3], FMul(shift[j], LastRow[3])), FAdd(t[j][4], FMul(shift[j], LastRow[4]))>>

AppendTranslation(t, shift) ==
    <<TranslatedRow(t, shift, 1), TranslatedRow(t, shift, 2), TranslatedRow(t, shift, 3)>>

\* row i of Matrix4::append_nonuniform_scaling: it is multiplied by scaling[i]
ScaledRow(t, scaling, i) ==
    <<FMul(t[i][1], scaling[i]), FMul(t[i][2], scaling[i]),
      FMul(t[i][3], scaling[i]), FMul(t[i][4], scaling[i])>>

AppendNonuniformScaling(t, scaling) ==
    <<ScaledRow(t, scaling, 1), ScaledRow(t, scaling, 2), ScaledRow(t, scaling, 3)>>

\* cosine and sine of q quarter turns
CosQ(q) == <<1, 0, -1, 0>>[(q % 4) + 1]
SinQ(q) == <<0, 1, 0, -1>>[(q % 4) + 1]

\* na::Rotation::from_euler_angles(roll, pitch, yaw).to_homogeneous(), for
\* angles that are whole quarter turns: Rz(yaw) * Ry(pitch) * Rx(roll), as
\* the four rows of the homogeneous matrix
EulerHomogeneous(roll, pitch, yaw) ==
    LET cr == CosQ(roll)  sr == SinQ(roll)
        cp == CosQ(pitch) sp == SinQ(pitch)
        cy == CosQ(yaw)   sy == SinQ(yaw)
    IN  << <<cy * cp, cy * sp * sr - sy * cr, cy * sp * cr + sy * sr, 0>>,
           <<sy * cp, sy * sp * sr + cy * cr, sy * sp * cr - cy * sr, 0>>,
           <<-sp, cp * sr, cp * cr, 0>>,
           <<0, 0, 0, 1>> >>

\* entry (i, j) of the product of the homogeneous matrices of a (a
\* transform) and b (four rows)
ProductEntry(a, b, i, j) ==
    FAdd(FAdd(FMul(a[i][1], b[1][j]), FMul(a[i][2], b[2][j])),
         FAdd(FMul(a[i][3], b[3][j]), FMul(a[i][4], b[4][j])))

ProductRow(a, b, i) ==
    <<ProductEntry(a, b, i, 1), ProductEntry(a, b, i, 2),
      ProductEntry(a, b, i, 3), ProductEntry(a, b, i, 4)>>

\* the four rows of a matrix of integers, as Floats
FRows(h) ==
    << <<FInt(h[1][1]), FInt(h[1][2]), FInt(h[1][3]), FInt(h[1][4])>>,
       <<FInt(h[2][1]), FInt(h[2][2]), FInt(h[2][3]), FInt(h[2][4])>>,
       <<FInt(h[3][1]), FInt(h[3][2]), FInt(h[3][3]), FInt(h[3][4])>>,
       <<FInt(h[4][1]), FInt(h[4][2]), FInt(h[4][3]), FInt(h[4][4])>> >>

\* self.transform * euler
TMulHomogeneous(t, h) ==
    Only({ <<ProductRow(t, b, 1), ProductRow(t, b, 2), ProductRow(t, b, 3)>> :
               b \in {FRows(h)} })

\* the product a * b of two transforms
TMul(a, b) ==
    Only({ <<ProductRow(x, y, 1), ProductRow(x, y, 2), ProductRow(x, y, 3)>> :
               x \in {a}, y \in {<<b[1], b[2], b[3], LastRow>>} })

TFinite(t) == \A i \in 1..3, j \in 1..4 : IsFinite(t[i][j])

\* the 2x2 minor of rows i, j and columns k, l of the linear part
Minor(t, i, j, k, l) == FSub(FMul(t[i][k], t[j][l]), FMul(t[i][l], t[j][k]))

\* the determinant of the homogeneous matrix: that of its linear part
TDet(t) ==
    FAdd(FSub(FMul(t[1][1], Minor(t, 2, 3, 2, 3)), FMul(t[1][2], Minor(t, 2, 3, 1, 3))),
         FMul(t[1][3], Minor(t, 2, 3, 1, 2)))

NoInverse == <<>>

TNaN ==
    << <<FNaN, FNaN, FNaN, FNaN>>, <<FNaN, FNaN, FNaN, FNaN>>, <<FNaN, FNaN, FNaN, FNaN>> >>

\* the inverse of the linear part of a transform: its adjugate times 1/det
LinearInverse(t, id) ==
    << <<FMul(Minor(t, 2, 3, 2, 3), id), FMul(FNeg(Minor(t, 1, 3, 2, 3)), id),
         FMul(Minor(t, 1, 2, 2, 3), id)>>,
       <<FMul(FNeg(Minor(t, 2, 3, 1, 3)), id), FMul(Minor(t, 1, 3, 1, 3), id),
         FMul(FNeg(Minor(t, 1, 2, 1, 3)), id)>>,
       <<FMul(Minor(t, 2, 3, 1, 2), id), FMul(FNeg(Minor(t, 1, 3, 1, 2)), id),
         FMul(Minor(t, 1, 2, 1, 2), id)>> >>

\* row i of a linear part l, with the translation that undoes that of t
InverseRow(l, t, i) ==
    <<l[i][1], l[i][2], l[i][3],
      FNeg(FAdd(FAdd(FMul(l[i][1], t[1][4]), FMul(l[i][2], t[2][4])),
                FMul(l[i][3], t[3][4])))>>

\* the inverse of a transform with finite entries and determinant det # 0
TInverseFinite(t, det) ==
    Only({ <<InverseRow(l, t, 1), InverseRow(l, t, 2), InverseRow(l, t, 3)>> :
               l \in {LinearInverse(t, FInv(det))} })

\* Matrix4::try_inverse: None exactly when the determinant compares equal to
\* zero.  A matrix with an infinite or NaN entry has an infinite or NaN
\* determinant, which is not zero: Some(matrix of NaN) is returned.
TryInverse(t) ==
    IF ~TFinite(t) THEN TNaN
    ELSE Only({ IF det = FInt(0) THEN NoInverse ELSE TInverseFinite(t, det) :
                    det \in {TDet(t)} })

\* Matrix4::transform_point
TransformPoint(t, p) ==
    <<FAdd(FAdd(FMul(t[1][1], p[1]), FMul(t[1][2], p[2])), FAdd(FMul(t[1][3], p[3]), t[1][4])),
      FAdd(FAdd(FMul(t[2][1], p[1]), FMul(t[2][2], p[2])), FAdd(FMul(t[2][3], p[3]), t[2][4])),
      FAdd(FAdd(FMul(t[3][1], p[1]), FMul(t[3][2], p[2])), FAdd(FMul(t[3][3], p[3]), t[3][4]))>>

(***************************************************************************)
(* BoundingBox of the object model, corners in Float values.               *)
(***************************************************************************)
FMinOf(S) == CHOOSE a \in S : \A b \in S : ~FLess(b, a)
FMaxOf(S) == CHOOSE a \in S : \A b \in S : ~FLess(a, b)

\* the axis-aligned extent of a set of points
Extent(corners) ==
    BBox(<<FMinOf({c[1] : c \in corners}), FMinOf({c[2] : c \in corners}),
           FMinOf({c[3] : c \in corners})>>,
         <<FMaxOf({c[1] : c \in corners}), FMaxOf({c[2] : c \in corners}),
           FMaxOf({c[3] : c \in corners})>>)

\* BoundingBox::transform: the axis-aligned extent of the 8 transformed
\* corners; a box of NaN for a transform that is not finite
BBoxTransform(b, t) ==
    IF ~TFinite(t) THEN BBox(<<FNaN, FNaN, FNaN>>, <<FNaN, FNaN, FNaN>>)
    ELSE Only({ Extent(corners) :
                    corners \in {{ TransformPoint(t, <<x, y, z>>) :
                                      x \in {b.min[1], b.max[1]}, y \in {b.min[2], b.max[2]},
                                      z \in {b.min[3], b.max[3]} }} })

(***************************************************************************)
(* Objects: Sphere, AffineTransformer, and the variants whose code is not  *)
(* part of the sources modelled (Mesh, Bender, Twister), kept opaque.      *)
(***************************************************************************)
NoObject == [kind |-> "None"]

\* Sphere::new
Sphere(r) ==
    [kind |-> "Sphere", radius |-> FInt(r),
     bbox |-> BBox(FVecInt(<<-r, -r, -r>>), FVecInt(<<r, r, r>>))]

\* Mesh::new on a file that loads
MeshObject(filename) ==
    [kind |-> "Mesh", file |-> filename,
     bbox |-> BBox(FVecInt(<<-1, -1, -1>>), FVecInt(<<1, 1, 1>>))]

\* Bender::new, Twister::new
Bender(o, width) == [kind |-> "Bender", object |-> o, width |-> width, bbox |-> o.bbox]
Twister(o, height) == [kind |-> "Twister", object |-> o, height |-> height, bbox |-> o.bbox]

\* the result of a call that panicked
Panicked == [kind |-> "Panic"]

\* AffineTransformer::new_with_scaler
NewWithScaler(o, t, scale_min) ==
    Only({ Only({ IF t_inv = NoInverse THEN Panicked
                  ELSE [kind |-> "Affine", object |-> obj, transform |-> tr,
                        scale_min |-> sm, bbox |-> BBoxTransform(obj.bbox, t_inv)] :
                      t_inv \in {TryInverse(tr)} }) :
               obj \in {o}, tr \in {t}, sm \in {scale_min} })

\* AffineTransformer::new, AffineTransformer::identity
AffineNew(o, t) == NewWithScaler(o, t, FInt(1))
AffineIdentity(o) == AffineNew(o, TIdentity)

\* the matrix and the scale_min that translate, rotate and scale hand to
\* new_with_scaler, from those of the transformer they are called on
CallMatrix(t, call) ==
    CASE call.op = "translate" -> AppendTranslation(t, FVecNeg(call.arg))
      [] call.op = "rotate" ->
            TMulHomogeneous(t, EulerHomogeneous(call.arg[1], call.arg[2], call.arg[3]))
      [] call.op = "scale" ->
            AppendNonuniformScaling(t, <<FInv(call.arg[1]), FInv(call.arg[2]), FInv(call.arg[3])>>)

\* a scale that keeps s.x in place of the smallest of s.x, s.y, s.z
CallScaleMinOfX(scale_min, call) ==
    IF call.op = "scale" THEN FMul(scale_min, call.arg[1]) ELSE scale_min

CallScaleMin(scale_min, call) ==
    IF call.op = "scale"
    THEN FMul(scale_min, FMin(call.arg[1], FMin(call.arg[2], call.arg[3])))
    ELSE scale_min

\* <AffineTransformer as Object>::translate, rotate, scale
AffineTranslate(a, v) ==
    NewWithScaler(a.object, CallMatrix(a.transform, [op |-> "translate", arg |-> v]),
                  CallScaleMin(a.scale_min, [op |-> "translate", arg |-> v]))

AffineRotate(a, r) ==
    NewWithScaler(a.object, CallMatrix(a.transform, [op |-> "rotate", arg |-> r]),
                  CallScaleMin(a.scale_min, [op |-> "rotate", arg |-> r]))

AffineScale(a, s) ==
    NewWithScaler(a.object, CallMatrix(a.transform, [op |-> "scale", arg |-> s]),
                  CallScaleMin(a.scale_min, [op |-> "scale", arg |-> s]))

\* AffineTransformer::new_translate, new_rotate, new_scale
NewTranslate(o, v) == AffineTranslate(AffineIdentity(o), v)
NewRotate(o, r) == AffineRotate(AffineIdentity(o), r)
NewScale(o, s) == AffineScale(AffineIdentity(o), s)

\* Object::translate, rotate, scale: the default of the trait wraps a clone
\* of the object, AffineTransformer overrides it
ObjTranslate(o, v) == IF o.kind = "Affine" THEN AffineTranslate(o, v) ELSE NewTranslate(o, v)
ObjRotate(o, r) == IF o.kind = "Affine" THEN AffineRotate(o, r) ELSE NewRotate(o, r)
ObjScale(o, s) == IF o.kind = "Affine" THEN AffineScale(o, s) ELSE NewScale(o, s)

\* one transform call [op, arg] on an object
ObjApply(o, call) ==
    CASE call.op = "translate" -> ObjTranslate(o, call.arg)
      [] call.op = "rotate" -> ObjRotate(o, call.arg)
      [] call.op = "scale" -> ObjScale(o, call.arg)

(***************************************************************************)
(* The Renderer.  Points, directions, distances and thresholds of the ray  *)
(* marcher are fixed-point numbers: integers in units of 1/Fix, rounded to *)
(* the nearest unit where the f64 computation rounds to the nearest f64.   *)
(***************************************************************************)
Fix == 10 ^ 3

\* a / b for b > 0, to the nearest integer
RDiv(a, b) == (2 * a + b) \div (2 * b)

\* a finite Float as a fixed-point number, and fixed-point x times and over
\* a finite Float
FToFix(a) == RDiv(a.n * Fix, a.d)
MulFloat(x, a) == RDiv(x * a.n, a.d)
DivFloat(x, a) == RDiv(x * a.d * Sign(a.n), Abs(a.n))

\* the product of two fixed-point numbers
MulFix(x, y) == RDiv(x * y, Fix)

RECURSIVE SqrtIter(_, _)
SqrtIter(n, x) ==
    Only({ IF y >= x THEN x ELSE SqrtIter(n, y) : y \in {(x + n \div x) \div 2} })

\* the integer square root
ISqrt(n) == Only({ IF m = 0 THEN 0 ELSE SqrtIter(m, 2 ^ 16) : m \in {n} })

\* the length of a vector whose squares stay within the integers of the checker
ShortNorm(v) == ISqrt(Dot(v, v))

\* Vector::norm of a fixed-point vector; a long vector is measured in a
\* coarser unit k
Norm(v) ==
    Only({ Only({ k * ShortNorm(<<x[1] \div k, x[2] \div k, x[3] \div k>>) :
                      k \in {Max2(Abs(x[1]), Max2(Abs(x[2]), Abs(x[3]))) \div (2 ^ 13) + 1} }) :
               x \in {v} })

\* Vector::normalize
Normalize(v) ==
    Only({ Only({ <<RDiv(x[1] * Fix, n), RDiv(x[2] * Fix, n), RDiv(x[3] * Fix, n)>> :
                      n \in {Norm(x)} }) :
               x \in {v} })

\* Vector::dot of two fixed-point vectors
DotFix(a, b) == RDiv(Dot(a, b), Fix)

\* BoundingBox::value: the signed distance estimate of a point to the box
BBoxValue(b, p) ==
    Max2(Max2(p[1] - FToFix(b.max[1]), FToFix(b.min[1]) - p[1]),
         Max2(Max2(p[2] - FToFix(b.max[2]), FToFix(b.min[2]) - p[2]),
              Max2(p[3] - FToFix(b.max[3]), FToFix(b.min[3]) - p[3])))

\* Transform::transform_vector and transform_point on fixed-point vectors
VectorThrough(t, v) ==
    Only({ <<MulFloat(x[1], t[1][1]) + MulFloat(x[2], t[1][2]) + MulFloat(x[3], t[1][3]),
             MulFloat(x[1], t[2][1]) + MulFloat(x[2], t[2][2]) + MulFloat(x[3], t[2][3]),
             MulFloat(x[1], t[3][1]) + MulFloat(x[2], t[3][2]) + MulFloat(x[3], t[3][3])>> :
               x \in {v} })

PointThrough(t, p) ==
    VAdd(VectorThrough(t, p), <<FToFix(t[1][4]), FToFix(t[2][4]), FToFix(t[3][4])>>)

RECURSIVE ApproxValueExact(_, _, _)
\* an approx_value that never answers with the estimate of the bounding box
ApproxValueExact(o, p, slack) ==
    IF o.kind = "Sphere" THEN Norm(p) - FToFix(o.radius)
    ELSE MulFloat(ApproxValueExact(o.object, PointThrough(o.transform, p),
                                   DivFloat(slack, o.scale_min)),
                  o.scale_min)

RECURSIVE ApproxValue(_, _, _)
\* Object::approx_value of Sphere and of AffineTransformer
ApproxValue(o, p, slack) ==
    Only({ IF approx > s THEN approx
           ELSE IF o.kind = "Sphere" THEN Norm(x) - FToFix(o.radius)
           ELSE MulFloat(ApproxValue(o.object, PointThrough(o.transform, x),
                                     DivFloat(s, o.scale_min)),
                         o.scale_min) :
               x \in {p}, s \in {slack}, approx \in {BBoxValue(o.bbox, p)} })

RECURSIVE Normal(_, _)
\* Object::normal of Sphere and of AffineTransformer
Normal(o, p) ==
    IF o.kind = "Sphere" THEN Normalize(p)
    ELSE Normalize(VectorThrough(o.transform, Normal(o.object, PointThrough(o.transform, p))))

\* the constants of render.rs, in units of 1/Fix
EPSILON == 3
APPROX_SLACK == 100
FOCAL_FACTOR == 720
LightDir == <<-667, 667, -333>>

\* Renderer::object_width
ObjectWidth(o) ==
    IF o = NoObject THEN 0
    ELSE 2 * Max2(Max2(Abs(FToFix(o.bbox.max[1])), Abs(FToFix(o.bbox.min[1]))),
                  Max2(Max2(Abs(FToFix(o.bbox.max[2])), Abs(FToFix(o.bbox.min[2]))),
                       Max2(Abs(FToFix(o.bbox.max[3])), Abs(FToFix(o.bbox.min[3])))))

\* the loop of cast_ray gives up in the model after MaxMarch iterations
MaxMarch == 2 ^ 10

\* the ray after the step of one iteration of the loop of cast_ray
StepRay(st) ==
    Only({ [origin |-> VAdd(st.origin, <<MulFix(dir[1], st.value), MulFix(dir[2], st.value),
                                         MulFix(dir[3], st.value)>>),
            dir |-> dir] :
               dir \in {Normalize(st.dir)} })

\* one iteration of the loop of Renderer::cast_ray on the ray and the value
\* in st; th holds epsilon, maxval and approx_slack
MarchStep(obj, th, st) ==
    Only({ Only({ [origin |-> cr.origin, dir |-> cr.dir, value |-> value,
                   iter |-> st.iter + 1,
                   done |-> value > th.maxval \/ value < th.epsilon,
                   hit |-> ~(value > th.maxval)] :
                      value \in {ApproxValue(obj, cr.origin, th.approx_slack)} }) :
               cr \in {StepRay(st)} })

RECURSIVE March(_, _, _, _)
\* the loop of Renderer::cast_ray, for at most n iterations
March(obj, th, st, n) ==
    IF st.done THEN st
    ELSE IF n = 1 THEN MarchStep(obj, th, st)
    ELSE Only({ IF mid.done THEN mid ELSE March(obj, th, mid, n - n \div 2) :
                    mid \in {March(obj, th, st, n \div 2)} })

\* the normal.dot(light_dir) of the point the loop ended at, clamped at 0
ShadeOf(obj, m, light_dir) ==
    Only({ IF dot < 0 THEN 0 ELSE dot :
               dot \in {IF m.done /\ m.hit THEN DotFix(Normal(obj, m.origin), light_dir)
                        ELSE 0} })

\* Renderer::cast_ray: the pair (iter, shade)
CastRay(obj, th, origin, dir, light_dir, origin_value) ==
    Only({ Only({ [iter |-> m.iter, v |-> ShadeOf(obj, m, light_dir)] :
                      m \in {March(obj, th, st, MaxMarch)} }) :
               st \in {[origin |-> origin, dir |-> dir, value |-> origin_value, iter |-> 0,
                        done |-> FALSE, hit |-> FALSE]} })

\* the camera matrix trans: its rotation part (integers) and its translation
Rot3(h) == <<SubSeq(h[1], 1, 3), SubSeq(h[2], 1, 3), SubSeq(h[3], 1, 3)>>
RotVec(r, v) == <<Dot(r[1], v), Dot(r[2], v), Dot(r[3], v)>>
RotMul(a, b) ==
    LET row(i) == <<a[i][1] * b[1][1] + a[i][2] * b[2][1] + a[i][3] * b[3][1],
                    a[i][1] * b[1][2] + a[i][2] * b[2][2] + a[i][3] * b[3][2],
                    a[i][1] * b[1][3] + a[i][2] * b[2][3] + a[i][3] * b[3][3]>>
    IN  <<row(1), row(2), row(3)>>

\* the casts of one frame: for every row y and column x, cast_ray of the ray
\* through pixel (x, y), as draw_on_buf sets it up
Frame(obj, th, tr, width, height) ==
    LET object_width == ObjectWidth(obj)
        viewer_dist == RDiv(FOCAL_FACTOR * object_width * 3, Fix)
        m == Min2(width, height)
        w2 == width \div 2
        h2 == height \div 2
        dir_front == RotVec(tr.rot, <<0, 0, Fix>>)
        dir_rl == RotVec(tr.rot, <<FOCAL_FACTOR, 0, 0>>)
        dir_tb == RotVec(tr.rot, <<0, -FOCAL_FACTOR, 0>>)
        light_dir == RotVec(tr.rot, LightDir)
        ray_origin == VAdd(RotVec(tr.rot, <<0, 0, -viewer_dist>>), tr.shift)
        origin_value == ApproxValue(obj, ray_origin, th.approx_slack)
        part(v, k) == <<RDiv(v[1] * k, m), RDiv(v[2] * k, m), RDiv(v[3] * k, m)>>
        dir_row(y) == VAdd(dir_front, part(dir_tb, y - h2))
        dir(x, y) == VAdd(dir_row(y), part(dir_rl, x - w2))
    IN  { [x |-> x, y |-> y,
           cast |-> CastRay(obj, th, ray_origin, dir(x, y), light_dir, origin_value)] :
              x \in 0..(width - 1), y \in 0..(height - 1) }

\* the cast of pixel (x, y) in a frame
CastAt(frame, x, y) == (CHOOSE c \in frame : c.x = x /\ c.y = y).cast

\* 'as u8' of an iteration count and of 255.0 * v * v
U8(i) == i % 256
Shade(v) == Min2(255, (255 * v * v) \div (Fix * Fix))

\* the body of the row task of row y: the pixels of row_buf, in order
DrawRow(row_buf, frame, y) ==
    [k \in 1..Len(row_buf) |->
        LET x == (k - 1) \div 4
            j == (k - 1) % 4
        IN  IF j = 0 THEN U8(CastAt(frame, x, y).iter)
            ELSE IF j = 3 THEN row_buf[k]
            ELSE Shade(CastAt(frame, x, y).v)]

\* buf.chunks_mut(n).enumerate(), for a buffer of whole chunks
ChunksMut(b, n) == [y \in 0..((Len(b) \div n) - 1) |-> SubSeq(b, y * n + 1, (y + 1) * n)]

\* the buffer whose chunks are rows
JoinRows(rows, n, len) == [k \in 1..len |-> rows[(k - 1) \div n][((k - 1) % n) + 1]]

\* a set_object that keeps the thresholds of Renderer::new
ThresholdsOfNew(o) == [epsilon |-> EPSILON, maxval |-> 0, approx_slack |-> APPROX_SLACK]

\* the three thresholds set_object derives from the object
Thresholds(o) ==
    [epsilon |-> MulFix(ObjectWidth(o), EPSILON),
     maxval |-> ObjectWidth(o),
     approx_slack |-> MulFix(ObjectWidth(o), APPROX_SLACK)]


(***************************************************************************)
(* The inputs of the solver: sample planes (point p, normal n) and cells.  *)
(***************************************************************************)
Plane(p, n) == [p |-> p, n |-> n]

PlaneLists ==
    { \* tests::points_on_origin_solution_on_cube: the corner (1,2,3)
      <<Plane(<<1, 0, 0>>, <<1, 0, 0>>), Plane(<<0, 2, 0>>, <<0, 1, 0>>),
        Plane(<<0, 0, 3>>, <<0, 0, 1>>)>>,
      \* tests::points_on_cube_solution_in_origin
      <<Plane(<<1, 0, 0>>, <<0, 1, 1>>), Plane(<<0, 1, 0>>, <<1, 0, 1>>),
        Plane(<<0, 0, 1>>, <<1, 1, 0>>)>>,
      \* tests::origin: normals (0,1,2), (1,2,3), (2,3,4) are dependent
      <<Plane(<<0, 0, 0>>, <<0, 1, 2>>), Plane(<<0, 0, 0>>, <<1, 2, 3>>),
        Plane(<<0, 0, 0>>, <<2, 3, 4>>)>>,
      \* one plane x = 0, one plane x = 1: singular matrices
      <<Plane(<<0, 0, 0>>, <<1, 0, 0>>)>>,
      <<Plane(<<1, 0, 0>>, <<1, 0, 0>>)>> }

Cells ==
    { BBox(<<0, 0, 0>>, <<1, 1, 1>>),
      BBox(<<0, 0, 0>>, <<1, 2, 3>>),
      BBox(<<1, 0, 0>>, <<1, 2, 3>>) }

(***************************************************************************)
(* The solver's operations, on one Qef (self); the other Qef of a merge is *)
(* an input, built by new and possibly solved before.                      *)
(***************************************************************************)
InitQef ==
    /\ qef = NoQef
    /\ hist = [planes |-> <<>>, cell |-> BBox(Zero3, Zero3), solved |-> FALSE]

QNew(planes, cell) ==
    /\ qef' = QefNew(planes, cell)
    /\ hist' = [planes |-> planes, cell |-> cell, solved |-> FALSE]

QSolve ==
    /\ qef # NoQef
    /\ qef' = QefSolve(qef)
    /\ hist' = [hist EXCEPT !.solved = TRUE]

\* the other operand of merge: [planes, cell, q], q built by new from planes
\* and cell and, for half of them, solved
OtherQefs ==
    { [planes |-> pl, cell |-> c, q |-> QefNew(pl, c)] : pl \in PlaneLists, c \in Cells }
    \cup
    { [planes |-> pl, cell |-> c, q |-> QefSolve(QefNew(pl, c))] :
          pl \in PlaneLists, c \in Cells }

QMerge(other) ==
    /\ qef # NoQef
    /\ qef.num + other.q.num <= MaxPlanes
    /\ qef' = QefMerge(qef, other.q)
    /\ hist' = [planes |-> hist.planes \o other.planes,
                cell |-> BBoxUnion(hist.cell, other.cell),
                solved |-> FALSE]

NextQef ==
    \/ \E planes \in PlaneLists, cell \in Cells : QNew(planes, cell) /\ UNCHANGED <<lvars, rvars, ovars, cvars, tvars, svars>>
    \/ QSolve /\ UNCHANGED <<lvars, rvars, ovars, cvars, tvars, svars>>
    \/ \E other \in OtherQefs : QMerge(other) /\ UNCHANGED <<lvars, rvars, ovars, cvars, tvars, svars>>

(***************************************************************************)
(* The scripting boundary (luascad): one LObject handle, the factories     *)
(* and methods a script calls on it, and the console channel the Mesh      *)
(* factory writes to.                                                      *)
(***************************************************************************)
MaxOps == 4

\* translate and scale take Float vectors, rotate takes Euler angles (here
\* whole quarter turns)
TranslateArgs == { FVecInt(<<1, 0, 0>>) }
RotateArgs == { <<0, 0, 1>> }
ScaleArgs == { FVecInt(<<2, 2, 2>>), <<FInt(0), FInt(1), FInt(1)>>, <<FInf, FInt(1), FInt(1)>> }

TransformCalls ==
    { [op |-> "translate", arg |-> v] : v \in TranslateArgs }
    \cup { [op |-> "rotate", arg |-> r] : r \in RotateArgs }
    \cup { [op |-> "scale", arg |-> sc] : sc \in ScaleArgs }

Radii == {1, 2}
Filenames == {"cube.stl", "missing.stl"}

\* Mesh::new: Ok for a file that exists and parses, Err otherwise
MeshLoads(filename) == filename = "cube.stl"

\* mpsc::Sender::send: Ok while the receiver exists, Err once it was dropped
SendOk(ch) == ch.rx_alive
Send(ch, msg) == IF SendOk(ch) THEN [ch EXCEPT !.msgs = Append(@, msg)] ELSE ch

InitLua ==
    /\ lobj = [o |-> NoObject]
    /\ console = [msgs |-> <<>>, rx_alive |-> TRUE]
    /\ fatal = "none"
    /\ base = NoObject
    /\ calls = <<>>
    /\ lastop = [op |-> "none"]
    /\ nops = 0

LuaReady == fatal = "none" /\ nops < MaxOps

\* the 'Sphere' factory
LuaSphere(radius) ==
    /\ LuaReady
    /\ lobj' = [o |-> Sphere(radius)]
    /\ base' = Sphere(radius)
    /\ calls' = <<>>
    /\ lastop' = [op |-> "Sphere"]
    /\ nops' = nops + 1
    /\ UNCHANGED <<console, fatal>>

\* the 'Mesh' factory: console.send(..).unwrap() on both branches
LuaMesh(filename) ==
    /\ LuaReady
    /\ console' = Send(console, IF MeshLoads(filename) THEN "Warning" ELSE "Could not read mesh")
    /\ fatal' = IF SendOk(console) THEN "none" ELSE "send"
    /\ lobj' = IF ~SendOk(console) THEN lobj
               ELSE IF MeshLoads(filename) THEN [o |-> MeshObject(filename)]
               ELSE [o |-> NoObject]
    /\ base' = IF SendOk(console) /\ MeshLoads(filename) THEN MeshObject(filename) ELSE NoObject
    /\ calls' = <<>>
    /\ lastop' = [op |-> "Mesh", loaded |-> MeshLoads(filename), sent |-> Len(console.msgs)]
    /\ nops' = nops + 1

\* LObject::translate, rotate, scale
LuaTransform(call) ==
    /\ LuaReady
    /\ \E res \in {IF lobj.o = NoObject THEN NoObject ELSE ObjApply(lobj.o, call)} :
           /\ fatal' = IF res = Panicked THEN "singular" ELSE "none"
           /\ lobj' = IF res = Panicked THEN lobj ELSE [o |-> res]
           /\ calls' = IF res = Panicked \/ res = NoObject THEN calls ELSE Append(calls, call)
    /\ lastop' = [op |-> call.op, call |-> call, operand |-> lobj.o]
    /\ nops' = nops + 1
    /\ UNCHANGED <<console, base>>

\* the 'Bend' factory
LuaBend(width) ==
    /\ LuaReady
    /\ lobj' = [o |-> IF lobj.o = NoObject THEN NoObject ELSE Bender(lobj.o, width)]
    /\ base' = IF lobj.o = NoObject THEN NoObject ELSE Bender(lobj.o, width)
    /\ calls' = <<>>
    /\ lastop' = [op |-> "Bend", operand |-> lobj.o]
    /\ nops' = nops + 1
    /\ UNCHANGED <<console, fatal>>

\* the 'Twist' factory
LuaTwist(height) ==
    /\ LuaReady
    /\ lobj' = [o |-> IF lobj.o = NoObject THEN NoObject ELSE Twister(lobj.o, height)]
    /\ base' = IF lobj.o = NoObject THEN NoObject ELSE Twister(lobj.o, height)
    /\ calls' = <<>>
    /\ lastop' = [op |-> "Twist", operand |-> lobj.o]
    /\ nops' = nops + 1
    /\ UNCHANGED <<console, fatal>>

\* the holder of the receiving end of the console channel drops it
DropReceiver ==
    /\ fatal = "none"
    /\ console.rx_alive
    /\ console' = [console EXCEPT !.rx_alive = FALSE]
    /\ UNCHANGED <<lobj, fatal, base, calls, lastop, nops>>

NextLua ==
    \/ \E radius \in Radii : LuaSphere(radius) /\ UNCHANGED <<qvars, rvars, ovars, cvars, tvars, svars>>
    \/ \E filename \in Filenames : LuaMesh(filename) /\ UNCHANGED <<qvars, rvars, ovars, cvars, tvars, svars>>
    \/ \E call \in TransformCalls : LuaTransform(call) /\ UNCHANGED <<qvars, rvars, ovars, cvars, tvars, svars>>
    \/ LuaBend(1) /\ UNCHANGED <<qvars, rvars, ovars, cvars, tvars, svars>>
    \/ LuaTwist(1) /\ UNCHANGED <<qvars, rvars, ovars, cvars, tvars, svars>>
    \/ DropReceiver /\ UNCHANGED <<qvars, rvars, ovars, cvars, tvars, svars>>


(***************************************************************************)
(* Properties of the QEF solver.                                           *)
(***************************************************************************)
\* the accumulators and the cell of a Qef
QefAcc(q) == [ata |-> q.ata, atb |-> q.atb, btb |-> q.btb, sum |-> q.sum,
              num |-> q.num, bbox |-> q.bbox]

\* the Qef built directly from everything accumulated into qef, solved once
QefDirect == QefSolve(QefNew(hist.planes, hist.cell))

\* C1: after solve() the recorded solution lies inside the Qef's cell (the
\* closed box), whether the matrix inverse or the bisection fallback
\* produced it, for every Qef reachable by new, merge and solve.
C1_SolutionInCell ==
    (qef # NoQef /\ hist.solved) => BBoxContains(qef.bbox, qef.solution)

\* a solved Qef merged from several plane sets whose matrix is invertible
\* and whose least-squares point lies outside the cell: the fallback ran
C1_Witness ==
    /\ qef # NoQef
    /\ hist.solved
    /\ Len(hist.planes) > 3
    /\ Det3(QefMatrix(qef)) # 0
    /\ ~BBoxContains(qef.bbox, QefInverseSolution(qef))
    /\ BBoxContains(qef.bbox, qef.solution)

FreshOthers == { o \in OtherQefs : o.q.solution = NAN3 }

\* the pairs b, c of unsolved operands with b.merge(c)
MergedOthers ==
    { [b |-> b.q, c |-> c.q, bc |-> QefMerge(b.q, c.q)] :
          b \in FreshOthers, c \in FreshOthers }

\* C2: merge is commutative and associative on the accumulators and the
\* cell, and agrees with direct construction from the concatenated planes
\* and the union of the cells; unsolved operands give equal Qefs, so solve()
\* gives the same solution and error on them.
C2_MergeAlgebra ==
    qef # NoQef =>
        /\ QefAcc(qef) = QefAcc(QefNew(hist.planes, hist.cell))
        /\ \A b \in OtherQefs :
              /\ QefAcc(QefMerge(qef, b.q)) = QefAcc(QefMerge(b.q, qef))
              /\ QefAcc(QefMerge(qef, b.q)) =
                     QefAcc(QefNew(hist.planes \o b.planes,
                                   BBoxUnion(hist.cell, b.cell)))
        /\ \A bc \in MergedOthers :
              QefAcc(QefMerge(QefMerge(qef, bc.b), bc.c)) =
                  QefAcc(QefMerge(qef, bc.bc))
        /\ qef.solution = NAN3 =>
              /\ \A b \in FreshOthers :
                    /\ QefMerge(qef, b.q) = QefMerge(b.q, qef)
                    /\ QefMerge(qef, b.q) =
                           QefNew(hist.planes \o b.planes, BBoxUnion(hist.cell, b.cell))
              /\ QefSolve(qef).solution = QefDirect.solution
              /\ QefSolve(qef).error = QefDirect.error

\* an unsolved Qef merged from plane sets with different cells
C2_Witness ==
    /\ qef # NoQef
    /\ qef.solution = NAN3
    /\ Len(hist.planes) >= 4
    /\ hist.planes[1] # hist.planes[4]
    /\ qef.bbox = BBox(<<0, 0, 0>>, <<1, 2, 3>>)
    /\ QefSolve(qef).solution # NAN3

\* C3: after any sequence of new, solve and merge that ends with solve(),
\* solution and error are those of a Qef built directly from the merged
\* planes and the merged cell and solved once.
C3_SolveDependsOnPlanesAndCell ==
    (qef # NoQef /\ hist.solved) =>
        /\ qef.solution = QefDirect.solution
        /\ qef.error = QefDirect.error

\* the integer points a common point of the sample planes is looked for in
GridPoints == { <<x, y, z>> : x \in 0..3, y \in 0..3, z \in 0..3 }

\* every plane of the history passes through c
PlanesThrough(c) ==
    \A k \in 1..Len(hist.planes) :
        Dot(hist.planes[k].n, VSub(c, hist.planes[k].p)) = 0

\* three of the normals are linearly independent
NormalsSpan ==
    \E i, j, k \in 1..Len(hist.planes) :
        Det3(<<hist.planes[i].n, hist.planes[j].n, hist.planes[k].n>>) # 0

\* C4: for at least 3 planes whose normals span 3D and which all pass
\* through a common point c inside the cell (boundary included), new
\* followed by solve records solution = c.
C4_CommonPointSolved ==
    (qef # NoQef /\ hist.solved /\ Len(hist.planes) >= 3) =>
        \A c \in GridPoints :
            ( /\ BBoxContains(hist.cell, [v |-> c, d |-> 1])
              /\ PlanesThrough(c)
              /\ NormalsSpan )
            => qef.solution = [v |-> c, d |-> 1]

\* the planes x = 1, y = 2, z = 3 with the cell [0,1]x[0,2]x[0,3]: the common
\* point (1,2,3) is the corner of the cell
C4_Witness ==
    /\ qef # NoQef
    /\ hist.solved
    /\ NormalsSpan
    /\ PlanesThrough(<<1, 2, 3>>)
    /\ hist.cell = BBox(<<0, 0, 0>>, <<1, 2, 3>>)
    /\ qef.solution = [v |-> <<1, 2, 3>>, d |-> 1]

(***************************************************************************)
(* The Renderer as its caller drives it: set_object, the two camera        *)
(* moves, and draw_on_buf on the caller's buffer.                          *)
(***************************************************************************)
MaxDim == 2

\* a sphere, and a sphere flattened to a hundredth along x
ThinSphere == ObjScale(Sphere(1), <<FNorm(1, 100), FInt(1), FInt(1)>>)
RenderObjects == {Sphere(2), ThinSphere}

\* rotate_from_screen by half turns about the vertical axis, and
\* translate_from_screen sideways by 17/Fix, within one step of the centre
RotateInputs == { <<2, 0>> }
TranslateInputs == { <<17, 0>>, <<-17, 0>> }
Rots == { Rot3(EulerHomogeneous(0, q, 0)) : q \in {0, 2} }
Shifts == { <<-17, 0, 0>>, <<0, 0, 0>>, <<17, 0, 0>> }
Fills == {0, 7}

\* the cameras and image sizes of the frames below
Cameras == { [rot |-> r, shift |-> sh] : r \in Rots, sh \in Shifts }

FrameKeys ==
    { [obj |-> o, th |-> Thresholds(o), tr |-> c, width |-> w, height |-> h] :
          o \in RenderObjects, c \in Cameras, w \in 1..MaxDim, h \in 1..MaxDim }

\* the frames of every object, camera and image size, computed once
FrameTable ==
    { [key |-> k, frame |-> Frame(k.obj, k.th, k.tr, k.width, k.height)] : k \in FrameKeys }

\* the casts of the frame draw_on_buf renders
FrameOf(k) ==
    IF k \in FrameKeys THEN (CHOOSE e \in FrameTable : e.key = k).frame
    ELSE Frame(k.obj, k.th, k.tr, k.width, k.height)

\* the state of the Renderer an operation found
Before == [object |-> robject, epsilon |-> epsilon, maxval |-> maxval,
           approx_slack |-> approx_slack]

\* the fourth byte of every pixel of a buffer
FourthBytes(b) == [k \in 1..(Len(b) \div 4) |-> b[4 * k]]

\* Renderer::new, and no buffer yet
InitRender ==
    /\ robject = NoObject
    /\ trans = [rot |-> Rot3(EulerHomogeneous(0, 0, 0)), shift |-> <<0, 0, 0>>]
    /\ epsilon = EPSILON
    /\ maxval = 0
    /\ approx_slack = APPROX_SLACK
    /\ buf = <<>>
    /\ rlast = [op |-> "new", was_set |-> FALSE, before |-> <<>>,
                width |-> 0, height |-> 0, kept |-> <<>>]

\* Renderer::set_object
SetObject(o) ==
    /\ robject' = o
    /\ epsilon' = Thresholds(o).epsilon
    /\ maxval' = Thresholds(o).maxval
    /\ approx_slack' = Thresholds(o).approx_slack
    /\ rlast' = [op |-> "set_object", was_set |-> TRUE, before |-> Before,
                 width |-> 0, height |-> 0, kept |-> <<>>]
    /\ UNCHANGED <<trans, buf>>

\* Renderer::rotate_from_screen
RotateFromScreen(x, y) ==
    /\ trans' = [trans EXCEPT !.rot = RotMul(@, Rot3(EulerHomogeneous(y, x, 0)))]
    /\ rlast' = [op |-> "rotate_from_screen", was_set |-> rlast.was_set, before |-> Before,
                 width |-> 0, height |-> 0, kept |-> <<>>]
    /\ UNCHANGED <<robject, epsilon, maxval, approx_slack, buf>>

\* Renderer::translate_from_screen
TranslateFromScreen(x, y) ==
    /\ VAdd(trans.shift, <<-x, y, 0>>) \in Shifts
    /\ trans' = [trans EXCEPT !.shift = VAdd(@, <<-x, y, 0>>)]
    /\ rlast' = [op |-> "translate_from_screen", was_set |-> rlast.was_set,
                 before |-> Before, width |-> 0, height |-> 0, kept |-> <<>>]
    /\ UNCHANGED <<robject, epsilon, maxval, approx_slack, buf>>

\* the caller takes a buffer of width * height pixels, every byte fill
NewBuffer(width, height, fill) ==
    /\ buf' = [k \in 1..(4 * width * height) |-> fill]
    /\ rlast' = [rlast EXCEPT !.op = "buffer", !.before = Before,
                              !.width = 0, !.height = 0, !.kept = <<>>]
    /\ UNCHANGED <<robject, trans, epsilon, maxval, approx_slack>>

\* Renderer::draw_on_buf; with an object set, on a buffer of
\* width * height * 4 bytes
DrawOnBuf(width, height) ==
    /\ robject = NoObject \/ (width >= 1 /\ height >= 1 /\ Len(buf) = width * height * 4)
    /\ \/ /\ robject = NoObject
          /\ buf' = buf
       \/ /\ robject # NoObject
          /\ \E frame \in {FrameOf([obj |-> robject,
                                   th |-> [epsilon |-> epsilon, maxval |-> maxval,
                                           approx_slack |-> approx_slack],
                                   tr |-> trans, width |-> width, height |-> height])} :
                 LET chunks == ChunksMut(buf, width * 4)
                     rows == [y \in DOMAIN chunks |-> DrawRow(chunks[y], frame, y)]
                 IN  buf' = JoinRows(rows, width * 4, Len(buf))
    /\ rlast' = [op |-> "draw_on_buf", was_set |-> rlast.was_set, before |-> Before,
                 width |-> width, height |-> height, kept |-> FourthBytes(buf)]
    /\ UNCHANGED <<robject, trans, epsilon, maxval, approx_slack>>

NextRender ==
    \/ \E o \in RenderObjects \cup {NoObject} : SetObject(o) /\ UNCHANGED <<qvars, lvars, ovars, cvars, tvars, svars>>
    \/ \E a \in RotateInputs : RotateFromScreen(a[1], a[2]) /\ UNCHANGED <<qvars, lvars, ovars, cvars, tvars, svars>>
    \/ \E a \in TranslateInputs : TranslateFromScreen(a[1], a[2]) /\ UNCHANGED <<qvars, lvars, ovars, cvars, tvars, svars>>
    \/ \E width \in 1..MaxDim, height \in 1..MaxDim, fill \in Fills :
           NewBuffer(width, height, fill) /\ UNCHANGED <<qvars, lvars, ovars, cvars, tvars, svars>>
    \/ \E width \in 0..MaxDim, height \in 0..MaxDim :
           DrawOnBuf(width, height) /\ UNCHANGED <<qvars, lvars, ovars, cvars, tvars, svars>>

(***************************************************************************)
(* Claims about the Renderer.                                              *)
(***************************************************************************)
\* C5: after draw_on_buf on a Renderer with no object, every byte of the
\* buffer is zero, whatever the buffer held before.
C5_NoObjectDrawsZero ==
    (rlast.op = "draw_on_buf" /\ robject = NoObject) =>
        \A k \in 1..Len(buf) : buf[k] = 0

\* the cast of pixel (x, y) of the frame the last draw_on_buf rendered
LastCast(x, y) ==
    CastAt(FrameOf([obj |-> robject,
                    th |-> [epsilon |-> epsilon, maxval |-> maxval,
                            approx_slack |-> approx_slack],
                    tr |-> trans, width |-> rlast.width, height |-> rlast.height]), x, y)

\* C6: after draw_on_buf with an object set, pixel (x, y) occupies the bytes
\* from 4*(y*width+x): the first is the iteration count cast_ray returned for
\* the pixel, the second and the third are its shade, and the fourth is the
\* byte the buffer held before.
C6_PixelLayout ==
    (rlast.op = "draw_on_buf" /\ robject # NoObject) =>
        \A x \in 0..(rlast.width - 1), y \in 0..(rlast.height - 1) :
            \E c \in {LastCast(x, y)} :
                /\ buf[4 * (y * rlast.width + x) + 1] = c.iter
                /\ buf[4 * (y * rlast.width + x) + 2] = Shade(c.v)
                /\ buf[4 * (y * rlast.width + x) + 3] = Shade(c.v)
                /\ buf[4 * (y * rlast.width + x) + 4] = rlast.kept[y * rlast.width + x + 1]

\* rotate_from_screen, translate_from_screen and draw_on_buf leave the three
\* thresholds and the object as they found them
CameraAndDrawKeepThresholds ==
    rlast.op \in {"rotate_from_screen", "translate_from_screen", "draw_on_buf"} =>
        Before = rlast.before

\* the three thresholds are the ones derived from the width of the object
ThresholdsDerived ==
    /\ epsilon = RDiv(ObjectWidth(robject) * EPSILON, Fix)
    /\ maxval = ObjectWidth(robject)
    /\ approx_slack = RDiv(ObjectWidth(robject) * APPROX_SLACK, Fix)

\* C7 as stated: in every state reachable through new, set_object, the camera
\* moves and draw_on_buf the thresholds are epsilon = 0.003*W, maxval = W and
\* approx_slack = 0.1*W for the width W of the current object (0 without
\* one), and the camera moves and draw_on_buf leave them and the object
\* unchanged.
C7_ThresholdsAlwaysDerived ==
    /\ ThresholdsDerived
    /\ CameraAndDrawKeepThresholds

\* C7 amended: the thresholds are the derived ones in every state after the
\* first set_object; until then the Renderer holds no object and the
\* thresholds of Renderer::new (epsilon = 0.003, maxval = 0, approx_slack =
\* 0.1); the camera moves and draw_on_buf leave thresholds and object
\* unchanged.
C7_ThresholdsDerivedOnceSet ==
    /\ rlast.was_set => ThresholdsDerived
    /\ ~rlast.was_set =>
           /\ robject = NoObject
           /\ epsilon = EPSILON
           /\ maxval = 0
           /\ approx_slack = APPROX_SLACK
    /\ CameraAndDrawKeepThresholds

\* draw_on_buf ran on an object set after another one of a different width
C7_Witness ==
    /\ rlast.was_set
    /\ rlast.op = "draw_on_buf"
    /\ robject = ThinSphere
    /\ epsilon = 6
    /\ maxval = 2 * Fix
    /\ approx_slack = 200
    /\ trans.shift # <<0, 0, 0>>

(***************************************************************************)
(* Claims about the transforms and the scripting boundary.                 *)
(***************************************************************************)
\* the matrix of one call on its own, as new_translate, new_rotate and
\* new_scale build it
SingleMatrix(call) == CallMatrix(TIdentity, call)

RECURSIVE ComposeStacked(_)
\* the matrix of the stack of wrappers cs[n](..cs[1](o)..): a point goes
\* through the matrix of the last call first
ComposeStacked(cs) ==
    IF cs = <<>> THEN TIdentity
    ELSE TMul(SingleMatrix(Head(cs)), ComposeStacked(Tail(cs)))

RECURSIVE ComposeReversed(_)
\* the product of the same matrices in the opposite order
ComposeReversed(cs) ==
    IF cs = <<>> THEN TIdentity
    ELSE TMul(ComposeReversed(Tail(cs)), SingleMatrix(Head(cs)))

\* the calls whose own matrix has finite entries only
FiniteCalls == \A i \in 1..Len(calls) : TFinite(SingleMatrix(calls[i]))

\* C8: after any sequence of translate/rotate/scale calls (each with a finite
\* matrix of its own) on an object that is not an AffineTransformer, the
\* handle holds exactly one AffineTransformer, its child is that object, and
\* its matrix is the composition of the matrices of all the calls (taken in
\* either order of composition).
C8_TransformsFold ==
    (fatal = "none" /\ base # NoObject /\ Len(calls) >= 1 /\ FiniteCalls) =>
        /\ lobj.o.kind = "Affine"
        /\ lobj.o.object = base
        /\ lobj.o.object.kind # "Affine"
        /\ lobj.o.transform \in {ComposeStacked(calls), ComposeReversed(calls)}

\* a matrix that has an inverse: finite entries and a determinant that is
\* not zero
HasInverse(t) == TFinite(t) /\ TDet(t) # FInt(0)

\* the matrix the last transform call handed to new_with_scaler
LastComposed ==
    CallMatrix(IF lastop.operand.kind = "Affine" THEN lastop.operand.transform ELSE TIdentity,
               lastop.call)

\* C9: no AffineTransformer with a non-invertible matrix is ever returned: a
\* transform call on an object panics exactly when the composed matrix has no
\* inverse, and every AffineTransformer a handle holds has an invertible matrix.
C9_NoSingularTransformer ==
    /\ lobj.o.kind = "Affine" => HasInverse(lobj.o.transform)
    /\ (lastop.op \in {"translate", "rotate", "scale"} /\ lastop.operand # NoObject) =>
           (fatal = "singular" <=> ~HasInverse(LastComposed))

\* C10: a Mesh call on a file that does not load never ends the script: it
\* sends exactly one message and leaves a handle with no object, whatever the
\* state of the console channel, and translate/rotate/scale/Bend/Twist on a
\* handle with no object give a handle with no object.
C10_FailedMeshRecovers ==
    /\ (lastop.op = "Mesh" /\ ~lastop.loaded) =>
           /\ fatal = "none"
           /\ Len(console.msgs) = lastop.sent + 1
           /\ lobj.o = NoObject
    /\ (lastop.op \in {"translate", "rotate", "scale", "Bend", "Twist"}
            /\ lastop.operand = NoObject) =>
           /\ fatal = "none"
           /\ lobj.o = NoObject

(***************************************************************************)
(* The object model on its own: a Sphere, the AffineTransformers that      *)
(* translate, rotate and scale build on it, and calls of approx_value.     *)
(***************************************************************************)
MaxCalls == 3

\* ALWAYS_PRECISE of primitive/lib.rs, in units of 1/Fix
ALWAYS_PRECISE == 1000

\* a slack of infinity: above every bounding-box estimate of the model, and
\* still above them when divided by the scale_min of any object of the model
SlackInfinity == 10 ^ 6

ObjectRadii == {1, 2}

\* translate by (1,0,0), rotate a quarter turn about z, scale by (2,2,2) and
\* by (4,2,4)
ObjectCalls ==
    { [op |-> "translate", arg |-> FVecInt(<<1, 0, 0>>)],
      [op |-> "rotate", arg |-> <<0, 0, 1>>],
      [op |-> "scale", arg |-> FVecInt(<<2, 2, 2>>)],
      [op |-> "scale", arg |-> FVecInt(<<4, 2, 4>>)] }

\* the points of evaluation, in units of 1/Fix: multiples of 64, which the
\* matrices of up to MaxCalls + 1 scale calls map exactly
ProbePoints == { <<1920, 1920, 0>>, <<3200, 960, 1920>>, <<320, 0, 0>> }
NormalPoints == { <<1920, 1920, 0>>, <<3200, 960, 1920>> }
Slacks == {0, APPROX_SLACK, ALWAYS_PRECISE, SlackInfinity}

InitObject ==
    /\ shape = NoObject
    /\ ocalls = <<>>
    /\ probe = [op |-> "none"]

\* Sphere::new
ONew(r) ==
    /\ shape' = Sphere(r)
    /\ ocalls' = <<>>
    /\ probe' = [op |-> "new"]

\* Object::translate, rotate, scale on the object
OTransform(call) ==
    /\ shape # NoObject
    /\ Len(ocalls) < MaxCalls
    /\ shape' = ObjApply(shape, call)
    /\ ocalls' = Append(ocalls, call)
    /\ probe' = [op |-> call.op, arg |-> call.arg, before |-> shape]

\* Object::approx_value on the object
OApproxValue(p, slack) ==
    /\ shape # NoObject
    /\ probe' = [op |-> "approx_value", p |-> p, slack |-> slack,
                 value |-> ApproxValue(shape, p, slack)]
    /\ UNCHANGED <<shape, ocalls>>

NextObject ==
    \/ \E r \in ObjectRadii : ONew(r) /\ UNCHANGED <<qvars, lvars, rvars, cvars, tvars, svars>>
    \/ \E call \in ObjectCalls :
           OTransform(call) /\ UNCHANGED <<qvars, lvars, rvars, cvars, tvars, svars>>
    \/ \E p \in ProbePoints, slack \in Slacks :
           OApproxValue(p, slack) /\ UNCHANGED <<qvars, lvars, rvars, cvars, tvars, svars>>

(***************************************************************************)
(* Claims about the object model.                                          *)
(***************************************************************************)
\* a Float vector in units of 1/Fix
FixVec(v) == <<FToFix(v[1]), FToFix(v[2]), FToFix(v[3])>>

\* two unit vectors that agree within the rounding of two normalisations
NearVec(a, b) == \A i \in 1..3 : Abs(a[i] - b[i]) <= 2

\* C11: normal is invariant under translation, for a primitive and for an
\* object that earlier translate/rotate/scale calls wrapped: after
\* obj.translate(v), the normal of the result at every point p is the normal
\* of obj at the matching point p - v.
C11_NormalTranslationInvariant ==
    probe.op = "translate" =>
        \A p \in NormalPoints :
            NearVec(Normal(shape, p), Normal(probe.before, VSub(p, FixVec(probe.arg))))

\* the evaluation approx_value returns when it does not answer with the
\* estimate: the distance to the sphere, or the value of the child at the
\* transformed point, with the slack divided and the result multiplied by
\* scale_min
ExactValue(o, p, slack) ==
    IF o.kind = "Sphere" THEN Norm(p) - FToFix(o.radius)
    ELSE MulFloat(ApproxValue(o.object, PointThrough(o.transform, p),
                              DivFloat(slack, o.scale_min)),
                  o.scale_min)

RECURSIVE ScaleProduct(_)
\* the product, over the scale(s) calls of cs, of min(s.x, s.y, s.z)
ScaleProduct(cs) ==
    IF cs = <<>> THEN FInt(1)
    ELSE IF Head(cs).op # "scale" THEN ScaleProduct(Tail(cs))
    ELSE FMul(FMin(Head(cs).arg[1], FMin(Head(cs).arg[2], Head(cs).arg[3])),
              ScaleProduct(Tail(cs)))

\* every call of cs is a scale by the same positive factor on the three axes
UniformScales(cs) ==
    \A i \in 1..Len(cs) :
        /\ cs[i].op = "scale"
        /\ cs[i].arg[1] = cs[i].arg[2]
        /\ cs[i].arg[2] = cs[i].arg[3]
        /\ FLess(FInt(0), cs[i].arg[1])

\* a point in units of 1/Fix divided by a Float
PointOver(p, k) == <<DivFloat(p[1], k), DivFloat(p[2], k), DivFloat(p[3], k)>>

\* C16: after any sequence of translate/rotate/scale calls on an object that
\* is no transformer, scale_min of the AffineTransformer is the product over
\* the scale(s) calls of min(s.x, s.y, s.z), 1 without any; translate and
\* rotate leave it unchanged; approx_value hands slack / scale_min to the
\* child and multiplies the child's result by scale_min, so that an object
\* scaled uniformly by k > 0 returns k times the child's value at the point
\* divided by k.
C16_ScaleMinTracksScaleCalls ==
    /\ shape.kind = "Affine" =>
           /\ shape.object.kind = "Sphere"
           /\ shape.scale_min = ScaleProduct(ocalls)
    /\ (probe.op \in {"translate", "rotate"}) =>
           shape.scale_min = IF probe.before.kind = "Affine" THEN probe.before.scale_min
                             ELSE FInt(1)
    /\ (probe.op = "approx_value" /\ shape.kind = "Affine") =>
           \E k \in {ScaleProduct(ocalls)} :
               /\ BBoxValue(shape.bbox, probe.p) <= probe.slack =>
                      probe.value =
                          MulFloat(ApproxValue(shape.object,
                                               PointThrough(shape.transform, probe.p),
                                               DivFloat(probe.slack, k)), k)
               /\ UniformScales(ocalls) =>
                      probe.value =
                          MulFloat(ApproxValue(shape.object, PointOver(probe.p, k),
                                               DivFloat(probe.slack, k)), k)

\* approx_value on a sphere scaled by (2,2,2), translated and scaled by
\* (4,2,4), at a point where the child is asked: scale_min is 2 * 2
C16_Witness ==
    /\ probe.op = "approx_value"
    /\ Len(ocalls) = 3
    /\ ocalls[1].op = "scale"
    /\ ocalls[2].op = "translate"
    /\ ocalls[3].op = "scale"
    /\ ocalls[3].arg = FVecInt(<<4, 2, 4>>)
    /\ shape.scale_min = FInt(4)
    /\ probe.slack = APPROX_SLACK
    /\ BBoxValue(shape.bbox, probe.p) <= probe.slack
    /\ probe.value # BBoxValue(shape.bbox, probe.p)

(***************************************************************************)
(* One call of cast_ray, iteration by iteration: the ray of a pixel that   *)
(* draw_on_buf sets up, then the loop, then the return.                    *)
(***************************************************************************)
\* the objects of the renderer, and Sphere::new(0.): a bounding box of width 0
CastObjects == RenderObjects \cup {Sphere(0)}

\* the ray through pixel (x, y), the light direction and the value at the
\* origin of the ray, as draw_on_buf hands them to cast_ray
PixelRay(o, th, tr, width, height, x, y) ==
    LET viewer_dist == RDiv(FOCAL_FACTOR * ObjectWidth(o) * 3, Fix)
        m == Min2(width, height)
        dir_front == RotVec(tr.rot, <<0, 0, Fix>>)
        dir_rl == RotVec(tr.rot, <<FOCAL_FACTOR, 0, 0>>)
        dir_tb == RotVec(tr.rot, <<0, -FOCAL_FACTOR, 0>>)
        ray_origin == VAdd(RotVec(tr.rot, <<0, 0, -viewer_dist>>), tr.shift)
        part(v, k) == <<RDiv(v[1] * k, m), RDiv(v[2] * k, m), RDiv(v[3] * k, m)>>
    IN  [origin |-> ray_origin,
         dir |-> VAdd(VAdd(dir_front, part(dir_tb, y - height \div 2)),
                      part(dir_rl, x - width \div 2)),
         light_dir |-> RotVec(tr.rot, LightDir),
         origin_value |-> ApproxValue(o, ray_origin, th.approx_slack)]

InitCast == cast = [pc |-> "idle"]

\* cast_ray is entered for pixel (x, y) of a width x height image of object
\* o, set by set_object, under camera tr
CastBegin(o, tr, width, height, x, y) ==
    /\ cast.pc # "loop"
    /\ \E th \in {Thresholds(o)} :
       \E ray \in {PixelRay(o, th, tr, width, height, x, y)} :
           cast' = [pc |-> "loop", object |-> o, th |-> th, light_dir |-> ray.light_dir,
                    st |-> [origin |-> ray.origin, dir |-> ray.dir,
                            value |-> ray.origin_value, iter |-> 0,
                            done |-> FALSE, hit |-> FALSE],
                    result |-> [iter |-> 0, v |-> 0]]

\* one iteration of the loop; on value > maxval or value < epsilon cast_ray
\* returns (iter, shade).  iter counts up to MaxMarch and stays there.
CastIterate ==
    /\ cast.pc = "loop"
    /\ \E st \in {MarchStep(cast.object, cast.th, cast.st)} :
           cast' = IF st.done
                   THEN [cast EXCEPT !.pc = "done", !.st = st,
                                     !.result = [iter |-> st.iter,
                                                 v |-> ShadeOf(cast.object, st,
                                                               cast.light_dir)]]
                   ELSE [cast EXCEPT !.st = [st EXCEPT !.iter = Min2(@, MaxMarch)]]

CastLoop == CastIterate /\ UNCHANGED <<qvars, lvars, rvars, ovars, tvars, svars>>

NextCast ==
    \/ \E o \in CastObjects, tr \in Cameras, width \in 1..MaxDim, height \in 1..MaxDim :
       \E x \in 0..(width - 1), y \in 0..(height - 1) :
           CastBegin(o, tr, width, height, x, y)
               /\ UNCHANGED <<qvars, lvars, rvars, ovars, tvars, svars>>
    \/ CastLoop

\* C13: cast_ray terminates for every ray and every object with a finite
\* bounding box of any width >= 0 set through set_object: the loop reaches a
\* value below epsilon (a hit, shade = max(0, normal . light_dir)) or above
\* maxval (a miss, shade 0) and returns the number of iterations, at least 1.
C13_CastRayTerminates ==
    /\ [](cast.pc = "done" =>
             /\ cast.st.value > cast.th.maxval \/ cast.st.value < cast.th.epsilon
             /\ cast.result.iter >= 1
             /\ cast.result.v =
                    IF cast.st.value > cast.th.maxval THEN 0
                    ELSE Max2(0, DotFix(Normal(cast.object, cast.st.origin), cast.light_dir)))
    /\ (cast.pc = "loop") ~> (cast.pc = "done")

(***************************************************************************)
(* One call of draw_on_buf, row task by row task: rayon runs the tasks of  *)
(* the rows in any order and interleaved; a step of a task is one pass of  *)
(* its loop over x.                                                        *)
(***************************************************************************)
\* chunks_mut(width) in place of chunks_mut(width * 4)
RowBytesOfPixels(width) == width

\* the chunk size (width * 4) as usize
RowBytes(width) == width * 4

\* the first byte (counted from 0) of chunk y of chunks of n bytes
ChunkStart(n, y) == y * n

RowsIdle == [pc |-> "idle"]

InitRows == draw = RowsIdle

\* the frame of the call of draw_on_buf in progress
DrawFrame ==
    FrameOf([obj |-> robject,
             th |-> [epsilon |-> epsilon, maxval |-> maxval, approx_slack |-> approx_slack],
             tr |-> trans, width |-> draw.width, height |-> draw.height])

\* draw_on_buf is entered with an object set, on a buffer of
\* width * height * 4 bytes: the rows are collected, no task has started
RowsBegin(width, height) ==
    /\ draw.pc # "running"
    /\ robject # NoObject
    /\ width >= 1
    /\ height >= 1
    /\ Len(buf) = width * height * 4
    /\ draw' = [pc |-> "running", width |-> width, height |-> height,
                next |-> [y \in 0..(height - 1) |-> 0],
                writers |-> [k \in 1..Len(buf) |-> {}],
                start |-> [renderer |-> Before, trans |-> trans, buf |-> buf],
                first |-> -1, mixed |-> FALSE]
    /\ UNCHANGED rvars

\* the task of row y runs one pass of its loop over x: cast_ray, then the
\* three bytes of the pixel in its chunk
RowStep(y) ==
    /\ draw.pc = "running"
    /\ draw.next[y] < draw.width
    /\ \E x \in {draw.next[y]}, at \in {ChunkStart(RowBytes(draw.width), y)} :
       \E c \in {CastAt(DrawFrame, x, y)} :
           /\ buf' = [buf EXCEPT ![at + 4 * x + 1] = U8(c.iter),
                                 ![at + 4 * x + 2] = Shade(c.v),
                                 ![at + 4 * x + 3] = Shade(c.v)]
           /\ draw' = [draw EXCEPT
                          !.next[y] = x + 1,
                          !.writers = [k \in 1..Len(buf) |->
                                          IF k \in {at + 4 * x + 1, at + 4 * x + 2,
                                                    at + 4 * x + 3}
                                          THEN draw.writers[k] \cup {y}
                                          ELSE draw.writers[k]],
                          !.first = IF draw.first = -1 THEN y ELSE draw.first,
                          !.mixed = draw.mixed \/
                                        \E z \in DOMAIN draw.next :
                                            z # y /\ 0 < draw.next[z]
                                                  /\ draw.next[z] < draw.width]
    /\ UNCHANGED <<robject, trans, epsilon, maxval, approx_slack, rlast>>

\* every task has ended: for_each returns
RowsJoin ==
    /\ draw.pc = "running"
    /\ \A y \in DOMAIN draw.next : draw.next[y] = draw.width
    /\ draw' = [draw EXCEPT !.pc = "joined"]
    /\ UNCHANGED rvars

NextRows ==
    \/ \E o \in RenderObjects :
           /\ draw.pc # "running"
           /\ SetObject(o)
           /\ draw' = RowsIdle
           /\ UNCHANGED <<qvars, lvars, ovars, cvars, svars>>
    \/ \E width \in 1..MaxDim, height \in 1..MaxDim, fill \in Fills :
           /\ draw.pc # "running"
           /\ NewBuffer(width, height, fill)
           /\ draw' = RowsIdle
           /\ UNCHANGED <<qvars, lvars, ovars, cvars, svars>>
    \/ \E width \in 1..MaxDim, height \in 1..MaxDim :
           RowsBegin(width, height) /\ UNCHANGED <<qvars, lvars, ovars, cvars, svars>>
    \/ \E y \in 0..(MaxDim - 1) :
           /\ draw.pc = "running"
           /\ y \in DOMAIN draw.next
           /\ RowStep(y)
           /\ UNCHANGED <<qvars, lvars, ovars, cvars, svars>>
    \/ RowsJoin /\ UNCHANGED <<qvars, lvars, ovars, cvars, svars>>

\* buffer b with the bytes of row y (rows of n bytes) replaced by those of row
WithRow(b, row, n, y) ==
    [k \in 1..Len(b) |-> IF (k - 1) \div n = y THEN row[((k - 1) % n) + 1] ELSE b[k]]

RECURSIVE RowsInOrder(_, _, _, _)
\* the rows from y on computed one after the other, from top to bottom
RowsInOrder(b, frame, n, y) ==
    IF (y + 1) * n > Len(b) THEN b
    ELSE RowsInOrder(WithRow(b, DrawRow(SubSeq(b, y * n + 1, (y + 1) * n), frame, y), n, y),
                     frame, n, y + 1)

\* C14: the row tasks of draw_on_buf are independent under every
\* interleaving: the task of row y writes only bytes in [y*width*4,
\* (y+1)*width*4), no byte is written by two tasks, no task writes the
\* renderer, the camera or the object, a row that is finished holds its final
\* bytes whatever the other tasks have done, and the buffer after the join is
\* the one the rows computed one after the other from top to bottom give.
C14_RowsIndependent ==
    draw.pc \in {"running", "joined"} =>
        /\ \A k \in 1..Len(buf) :
              /\ draw.writers[k] \subseteq {(k - 1) \div (4 * draw.width)}
              /\ draw.writers[k] = {} => buf[k] = draw.start.buf[k]
        /\ Before = draw.start.renderer
        /\ trans = draw.start.trans
        /\ Len(buf) = Len(draw.start.buf)
        /\ \E final \in {RowsInOrder(draw.start.buf, DrawFrame, 4 * draw.width, 0)} :
              /\ \A y \in DOMAIN draw.next :
                    draw.next[y] = draw.width =>
                        \A k \in (y * 4 * draw.width + 1)..((y + 1) * 4 * draw.width) :
                            buf[k] = final[k]
              /\ draw.pc = "joined" => buf = final

\* a 2 x 2 image of the flattened sphere on a buffer of sevens, drawn with
\* the task of the bottom row starting first and the two tasks interleaved
C14_Witness ==
    /\ draw.pc = "joined"
    /\ draw.width = 2
    /\ draw.height = 2
    /\ draw.first = 1
    /\ draw.mixed
    /\ robject = ThinSphere
    /\ draw.start.buf[1] = 7
    /\ buf # draw.start.buf

(***************************************************************************)
(* One call of search_solution from the fallback branch of solve, call by  *)
(* call of the recursion.                                                  *)
(***************************************************************************)
\* the cells of the searches: those of the solver, and cells of other extents
SearchCells ==
    Cells \cup { BBox(<<0, 0, 0>>, <<2, 1, 1>>),
                 BBox(<<-1, -1, -1>>, <<1, 1, 1>>),
                 BBox(<<0, 0, 0>>, <<3, 3, 3>>) }

\* the solution solve holds when it tests bbox.contains: the least-squares
\* point if the matrix has an inverse, else the solution as it was
SolutionBeforeFallback(q) ==
    IF Det3(QefMatrix(q)) # 0 THEN QefInverseSolution(q) ELSE q.solution

InitSearch == search = [pc |-> "idle"]

\* solve on Qef::new(planes, cell) finds its solution outside the cell and
\* calls search_solution(accuracy, &mut self.bbox.clone(), &ma), with
\* accuracy = acc / 100 and the clone in units of 1/Den
SearchBegin(planes, cell) ==
    /\ search.pc # "searching"
    /\ \E q \in {QefNew(planes, cell)} :
           /\ ~BBoxContains(q.bbox, SolutionBeforeFallback(q))
           /\ search' = [pc |-> "searching",
                         q |-> [q EXCEPT !.solution = SolutionBeforeFallback(q)],
                         cell |-> cell,
                         acc |-> q.bbox.max[1] - q.bbox.min[1],
                         box |-> BBox(VScale(Den, q.bbox.min), VScale(Den, q.bbox.max)),
                         depth |-> 0,
                         result |-> NAN3]

\* one call of search_solution: return the midpoint if the box is no wider
\* than accuracy on x, else halve the box and recurse
SearchCall ==
    /\ search.pc = "searching"
    /\ search' = IF 100 * (search.box.max[1] - search.box.min[1]) <= search.acc * Den
                 THEN [search EXCEPT !.pc = "returned",
                                     !.result = Rat3(BoxMid(search.box), Den)]
                 ELSE [search EXCEPT !.box = SearchHalve(search.q, search.box),
                                     !.depth = @ + 1]

SearchRecursion == SearchCall /\ UNCHANGED <<qvars, lvars, rvars, ovars, cvars, tvars>>

NextSearch ==
    \/ \E planes \in PlaneLists, cell \in SearchCells :
           SearchBegin(planes, cell) /\ UNCHANGED <<qvars, lvars, rvars, ovars, cvars, tvars>>
    \/ SearchRecursion

\* the error at mid + EPSILON on axis dim of box b is below the error at mid
ErrorFallsAt(q, b, dim) ==
    ErrLess(QefErrorPoly(q, BoxMid(b), Unit3(dim)), QefErrorPoly(q, BoxMid(b), Zero3))

\* C15: the fallback search_solution terminates with bounded depth: every
\* step halves the working box on all three axes, keeping on each axis the
\* upper half when the error at midpoint + EPSILON on that axis is below the
\* error at the midpoint and the lower half otherwise; with accuracy = (cell
\* x-extent) / 100 it returns the midpoint of the working box after at most 7
\* halvings, and the Qef's own cell is not changed.
C15_SearchTerminates ==
    /\ [](search.pc # "idle" =>
             /\ search.depth <= 7
             /\ search.q.bbox = search.cell
             /\ \A k \in 1..3 :
                    (search.box.max[k] - search.box.min[k]) * (2 ^ search.depth)
                        = (search.cell.max[k] - search.cell.min[k]) * Den
             /\ search.pc = "returned" =>
                    /\ search.result = Rat3(BoxMid(search.box), Den)
                    /\ search.result = QefFallback(search.q)
                    /\ 100 * (search.box.max[1] - search.box.min[1]) <= search.acc * Den)
    /\ [][(search.pc = "searching" /\ search'.pc = "searching") =>
             \A k \in 1..3 :
                 IF ErrorFallsAt(search.q, search.box, k)
                 THEN /\ search'.box.min[k] = BoxMid(search.box)[k]
                      /\ search'.box.max[k] = search.box.max[k]
                 ELSE /\ search'.box.min[k] = search.box.min[k]
                      /\ search'.box.max[k] = BoxMid(search.box)[k]]_vars
    /\ (search.pc = "searching") ~> (search.pc = "returned")

\* a search that returned after 7 halvings, with the upper half kept on the
\* x axis at some step and the lower half at another: the midpoint is inside
\* the cell and on neither of its x faces
C15_Witness ==
    /\ search.pc = "returned"
    /\ search.depth = 7
    /\ search.box.min[1] > Den * search.cell.min[1]
    /\ search.box.max[1] < Den * search.cell.max[1]
    /\ BBoxContains(search.cell, search.result)


Init ==
    /\ InitQef
    /\ InitLua
    /\ InitRender
    /\ InitObject
    /\ InitCast
    /\ InitRows
    /\ InitSearch

SpecQef == Init /\ [][NextQef]_vars

SpecLua == Init /\ [][NextLua]_vars

SpecRender == Init /\ [][NextRender]_vars

SpecObject == Init /\ [][NextObject]_vars

SpecRows == Init /\ [][NextRows]_vars

\* a search_solution that has been called runs on
SpecSearch == Init /\ [][NextSearch]_vars /\ WF_vars(SearchRecursion)

\* a call of cast_ray that is in its loop goes on to the next iteration
SpecCast == Init /\ [][NextCast]_vars /\ WF_vars(CastLoop)

====
